---- MODULE Spec2Model ----
(***************************************************************************)
(* Elliott-wave trading bot (src/app.py): turning-point detection, the     *)
(* impulse / corrective wave validators, the position sizer and the        *)
(* per-ticker trading loop that submits market orders to the broker.       *)
(*                                                                         *)
(* Prices are integers (price ticks).  The Fibonacci thresholds 0.618,     *)
(* 0.382 and 0.786 are the rationals 618/1000, 382/1000 and 786/1000 and   *)
(* every ratio test is done by cross-multiplication; with prices this      *)
(* small no ratio is within rounding distance of a threshold, so the       *)
(* floating-point tests of the source decide the same way.  The risk       *)
(* fraction is kept in per-mille (the slider's 0.5 .. 5.0 percent is       *)
(* 5 .. 50 per-mille).  Indices are 0-based, as in the source.             *)
(***************************************************************************)
EXTENDS Integers, Sequences, FiniteSets, TLC

VARIABLES
    order,             \* window half-width handed to find_wave_points
    ticker,            \* position in ticker_list (1-based), the outer for loop
    pc,                \* where the script is in the current ticker's iteration
    close,             \* data['Close'] of the current ticker
    max_idx,           \* peaks returned by find_wave_points
    min_idx,           \* troughs returned by find_wave_points
    wave_points,       \* sorted(list(max_idx) + list(min_idx))
    impulse_waves,     \* validate_impulse_wave(wave_points, close.values)
    corrective_waves,  \* detect_corrective_wave(wave_points, close.values)
    risk_pct,          \* sidebar slider, per-mille
    buying_power,      \* float(account.buying_power)
    position_qty,      \* tracked position quantity of the current ticker
    trade_log,         \* trade_log of the current ticker
    wave_i,            \* 1-based position of `wave` in impulse_waves
    buy_idx, sell_idx, stop_loss_idx,
    buy_price, sell_price, stop_loss_price,
    rsi_entry,         \* rsi_vals.iloc[buy_idx]
    macd_entry,        \* macd_hist.iloc[buy_idx]
    qty,               \* int(compute_position_size(...))
    orders,            \* requests handed to client.submit_order for this ticker
    query_failed       \* which broker query raised for this ticker, if any

vars == <<order, ticker, pc, close, max_idx, min_idx, wave_points,
          impulse_waves, corrective_waves, risk_pct, buying_power,
          position_qty, trade_log, wave_i, buy_idx, sell_idx, stop_loss_idx,
          buy_price, sell_price, stop_loss_price, rsi_entry, macd_entry,
          qty, orders, query_failed>>

analysis_vars == <<max_idx, min_idx, wave_points, impulse_waves, corrective_waves>>
wave_vars == <<wave_i, buy_idx, sell_idx, stop_loss_idx,
               buy_price, sell_price, stop_loss_price>>
indicator_vars == <<rsi_entry, macd_entry>>

----------------------------------------------------------------------------
(* Bounds of the model *)

NumTickers == 2      \* length of ticker_list
MaxLen == 5          \* longest exhaustively enumerated price series
MaxPrice == 3        \* largest price of an enumerated series / sizing input
MaxOrder == 2        \* largest enumerated window besides the default
MaxTuplePrice == 6   \* largest price of an enumerated 5-point tuple

(* Program constants *)

DefaultOrder == 5    \* find_wave_points(close, order=5)

----------------------------------------------------------------------------
(* Sequence helpers *)

At(s, i) == s[i + 1]

Abs(x) == IF x < 0 THEN -x ELSE x

Last(s) == s[Len(s)]

RECURSIVE SetToSortedSeq(_)
SetToSortedSeq(S) ==
    IF S = {} THEN <<>>
    ELSE LET m == CHOOSE x \in S : \A y \in S : x <= y
         IN  <<m>> \o SetToSortedSeq(S \ {m})

RECURSIVE Insert(_, _)
Insert(x, s) ==
    IF s = <<>> THEN <<x>>
    ELSE IF x <= Head(s) THEN <<x>> \o s
    ELSE <<Head(s)>> \o Insert(x, Tail(s))

RECURSIVE sorted(_)
sorted(s) == IF s = <<>> THEN <<>> ELSE Insert(Head(s), sorted(Tail(s)))

RECURSIVE SeqMin(_)
SeqMin(s) ==
    IF Len(s) = 1 THEN s[1]
    ELSE LET m == SeqMin(Tail(s)) IN IF s[1] <= m THEN s[1] ELSE m

----------------------------------------------------------------------------
(* Turning-point detection: find_wave_points *)

\* numpy take(..., mode='clip'): an index past either end reads the end element
Clip(i, n) == IF i < 0 THEN 0 ELSE IF i > n - 1 THEN n - 1 ELSE i

\* np.greater_equal and np.less_equal, named by the comparator handed over
compare(comparator, a, b) ==
    IF comparator = "greater_equal" THEN a >= b ELSE a <= b

\* argrelextrema(data, comparator, order=ord)[0], default mode='clip'
argrelextrema(data, comparator, ord) ==
    LET n == Len(data)
        Keeps(i) == \A shift \in 1..ord :
                       /\ compare(comparator, At(data, i), At(data, Clip(i + shift, n)))
                       /\ compare(comparator, At(data, i), At(data, Clip(i - shift, n)))
    IN  SetToSortedSeq({i \in 0..(n - 1) : Keeps(i)})

merge_unsorted(mx, mn) == mx \o mn

merge_wave_points(mx, mn) == sorted(mx \o mn)

find_wave_points(prices, ord) ==
    LET mx == argrelextrema(prices, "greater_equal", ord)
        mn == argrelextrema(prices, "less_equal", ord)
    IN  [max_idx |-> mx, min_idx |-> mn, wave_points |-> merge_wave_points(mx, mn)]

----------------------------------------------------------------------------
(* Ratios: a ratio is num/den with den # 0 *)

Ratio(n, d) == IF d # 0 THEN [num |-> n, den |-> d] ELSE [num |-> 0, den |-> 1]

\* numerator once the denominator is made positive
PosNum(r) == IF r.den < 0 THEN -r.num ELSE r.num
PosDen(r) == Abs(r.den)

RatioGt(r, a, b) == PosNum(r) * b > a * PosDen(r)   \* r > a/b, b > 0
RatioLt(r, a, b) == PosNum(r) * b < a * PosDen(r)   \* r < a/b, b > 0
RatioGe(r, a, b) == ~RatioLt(r, a, b)
RatioLe(r, a, b) == ~RatioGt(r, a, b)

----------------------------------------------------------------------------
(* Wave validators *)

impulse_accept_no_trend(w1, w2, w3, w4, w5) ==
    LET retrace_2 == Ratio(w1 - w2, w1 - w3)
        retrace_4 == Ratio(w3 - w4, w3 - w5)
        wave_3_length == Abs(w3 - w2)
        wave_1_length == Abs(w2 - w1)
        wave_5_length == Abs(w5 - w4)
    IN  /\ RatioGt(retrace_2, 0, 1) /\ RatioLt(retrace_2, 618, 1000)
        /\ RatioGt(retrace_4, 0, 1) /\ RatioLt(retrace_4, 618, 1000)
        /\ wave_3_length > wave_1_length
        /\ 1000 * wave_5_length >= 618 * wave_3_length

\* the if-condition of validate_impulse_wave
impulse_accept(w1, w2, w3, w4, w5) ==
    LET retrace_2 == Ratio(w1 - w2, w1 - w3)
        retrace_4 == Ratio(w3 - w4, w3 - w5)
        wave_3_length == Abs(w3 - w2)
        wave_1_length == Abs(w2 - w1)
        wave_5_length == Abs(w5 - w4)
    IN  /\ RatioGt(retrace_2, 0, 1) /\ RatioLt(retrace_2, 618, 1000)
        /\ RatioGt(retrace_4, 0, 1) /\ RatioLt(retrace_4, 618, 1000)
        /\ wave_3_length > wave_1_length
        /\ 1000 * wave_5_length >= 618 * wave_3_length
        /\ w1 < w3 /\ w3 < w5

\* points[i:i+k] for a 0-based i
Slice(points, i, k) == SubSeq(points, i + 1, i + k)

validate_impulse_wave(points, prices) ==
    LET Segment(i) == Slice(points, i, 5)
        Val(i, k) == At(prices, Segment(i)[k])
        Accepts(i) == impulse_accept(Val(i, 1), Val(i, 2), Val(i, 3), Val(i, 4), Val(i, 5))
        Starts == SetToSortedSeq({i \in 0..(Len(points) - 5) : Accepts(i)})
    IN  [j \in 1..Len(Starts) |-> Segment(Starts[j])]

\* the if-condition of detect_corrective_wave
corrective_accept(a, b, c) ==
    LET retrace_b == Ratio(Abs(b - a), Abs(c - a))
    IN  /\ RatioGe(retrace_b, 382, 1000) /\ RatioLe(retrace_b, 786, 1000)
        /\ ((c < a /\ b > a) \/ (c > a /\ b < a))

detect_corrective_wave(points, prices) ==
    LET Segment(i) == Slice(points, i, 3)
        Val(i, k) == At(prices, Segment(i)[k])
        Accepts(i) == corrective_accept(Val(i, 1), Val(i, 2), Val(i, 3))
        Starts == SetToSortedSeq({i \in 0..(Len(points) - 3) : Accepts(i)})
    IN  [j \in 1..Len(Starts) |-> Segment(Starts[j])]

----------------------------------------------------------------------------
(* Inputs *)

\* every price series of length 0..MaxLen over 0..MaxPrice
SmallSeries == UNION {[1..n -> 0..MaxPrice] : n \in 0..MaxLen}

\* one impulse wave, target exit
SeriesOneWave ==
    <<1, 2, 3, 2, 5, 4, 3, 2, 4, 6, 7, 6, 8, 7, 6, 9, 9, 10, 9, 8, 8, 11, 12>>

\* two overlapping impulse waves, both target exits
SeriesTwoWaves ==
    <<2, 1, 4, 4, 5, 4, 3, 2, 5, 7, 6, 6, 7, 5, 8, 6, 9, 7, 9, 7, 8, 8, 11,
      13, 14, 15, 16, 16, 18, 16, 15, 18, 19>>

\* one impulse wave whose entry..target window falls below the stop price
SeriesStopLoss ==
    <<5, 11, 9, 9, 6, 8, 10, 15, 19, 14, 9, 13, 17, 15, 20, 23, 24, 20, 21,
      20, 22, 28, 34>>

\* one impulse wave whose window minimum equals the stop price
SeriesStopTouch ==
    <<4, 0, 1, 1, 4, 2, 2, 3, 2, 4, 9, 5, 7, 4, 5, 9, 11, 6, 6, 9, 10, 7, 7,
      12, 18, 15, 17, 15>>

\* no impulse wave
SeriesFlat == <<3, 3, 3, 3, 3, 3, 3>>

HistorySeries ==
    {SeriesOneWave, SeriesTwoWaves, SeriesStopLoss, SeriesStopTouch, SeriesFlat}

\* what yf.download can return; <<>> is data.empty
DownloadResults == HistorySeries \cup {<<>>}

Orders == (1..MaxOrder) \cup {DefaultOrder}

NextTickerPc(t) == IF t > NumTickers THEN "done" ELSE "download"

----------------------------------------------------------------------------
(* Analysis steps of one ticker *)

\* line 145
FindWavePoints ==
    /\ pc = "find"
    /\ LET r == find_wave_points(close, order)
       IN  /\ max_idx' = r.max_idx
           /\ min_idx' = r.min_idx
           /\ wave_points' = r.wave_points
    /\ pc' = "impulse"
    /\ UNCHANGED <<order, ticker, close, impulse_waves, corrective_waves,
                   risk_pct, buying_power, position_qty, trade_log, wave_vars,
                   indicator_vars, qty, orders, query_failed>>

\* line 146
ValidateImpulse ==
    /\ pc = "impulse"
    /\ impulse_waves' = validate_impulse_wave(wave_points, close)
    /\ pc' = "corrective"
    /\ UNCHANGED <<order, ticker, close, max_idx, min_idx, wave_points,
                   corrective_waves, risk_pct, buying_power, position_qty,
                   trade_log, wave_vars, indicator_vars, qty, orders, query_failed>>

\* line 147
DetectCorrective ==
    /\ pc = "corrective"
    /\ corrective_waves' = detect_corrective_wave(wave_points, close)
    /\ pc' = "account"
    /\ UNCHANGED <<order, ticker, close, max_idx, min_idx, wave_points,
                   impulse_waves, risk_pct, buying_power, position_qty,
                   trade_log, wave_vars, indicator_vars, qty, orders, query_failed>>

NoIndicator == [nan |-> TRUE, v |-> 0]

Blank ==
    /\ ticker = 1
    /\ max_idx = <<>> /\ min_idx = <<>>
    /\ impulse_waves = <<>> /\ corrective_waves = <<>>
    /\ buying_power = 0 /\ position_qty = 0 /\ trade_log = <<>>
    /\ wave_i = 0 /\ buy_idx = 0 /\ sell_idx = 0 /\ stop_loss_idx = 0
    /\ buy_price = 0 /\ sell_price = 0 /\ stop_loss_price = 0
    /\ rsi_entry = NoIndicator /\ macd_entry = NoIndicator
    /\ qty = 0 /\ orders = <<>> /\ query_failed = "none"

----------------------------------------------------------------------------
(* The detector and the validators on every small series *)

InitDetect ==
    /\ Blank
    /\ wave_points = <<>>
    /\ order \in Orders
    /\ close \in SmallSeries \cup HistorySeries
    /\ risk_pct = 10
    /\ pc = "find"

NextDetect == FindWavePoints \/ ValidateImpulse \/ DetectCorrective

SpecDetect == InitDetect /\ [][NextDetect]_vars

----------------------------------------------------------------------------
(* Position sizing *)

\* a bug that floors a zero stop distance to one tick instead of returning 0
compute_position_size_floor_diff(balance, risk, entry_price, stop_loss) ==
    LET risk_amount == balance * risk
        stop_loss_diff == Abs(entry_price - stop_loss)
    IN  IF stop_loss_diff = 0 THEN [num |-> risk_amount, den |-> 1000]
        ELSE [num |-> risk_amount, den |-> 1000 * stop_loss_diff]

\* compute_position_size; risk is per-mille, so risk_amount is scaled by 1000
compute_position_size(balance, risk, entry_price, stop_loss) ==
    LET risk_amount == balance * risk
        stop_loss_diff == Abs(entry_price - stop_loss)
    IN  IF stop_loss_diff = 0 THEN [num |-> 0, den |-> 1]
        ELSE [num |-> risk_amount, den |-> 1000 * stop_loss_diff]

\* int(x): truncation toward zero
int_trunc(r) ==
    IF PosNum(r) >= 0 THEN PosNum(r) \div PosDen(r)
    ELSE -((-PosNum(r)) \div PosDen(r))

----------------------------------------------------------------------------
(* Momentum gates; an indicator value is a number or NaN *)

Num(x) == [nan |-> FALSE, v |-> x]

\* NaN compares False with everything
rsi_rejects_above_80(r) == ~r.nan /\ r.v > 80

rsi_rejects(r) == ~r.nan /\ r.v > 70      \* rsi_vals.iloc[buy_idx] > 70

macd_rejects(h) == ~h.nan /\ h.v < 0      \* macd_hist.iloc[buy_idx] < 0

RSIValues == {NoIndicator, Num(70), Num(75)}
MACDValues == {Num(-1), Num(0), Num(1)}

\* float(account.buying_power)
Balances == {-100, 0, 100, 2000}

\* int(position.qty) when client.get_position returns
BrokerPositions == {0, 3}

\* the sidebar slider: its minimum, its default and its maximum
RiskPermille == {5, 10, 50}

----------------------------------------------------------------------------
(* Trade log entries and submitted orders *)

LogEntry(k, w, q, p) == [kind |-> k, wave |-> w, qty |-> q, price |-> p]

\* one call of client.submit_order: the request (side, qty), its outcome (ok)
\* and, for reference, the wave it was made for, the position quantity it
\* was made at (held) and the indicator values of the wave's entry index
Order(side, q, ok) ==
    [side |-> side, qty |-> q, ok |-> ok, wave |-> wave_i, held |-> position_qty,
     rsi |-> rsi_entry, macd |-> macd_entry]

----------------------------------------------------------------------------
(* Per-ticker steps *)

\* lines 134-141: next ticker of ticker_list, download its history
Download ==
    /\ pc = "download"
    /\ ticker <= NumTickers
    /\ orders' = <<>>
    /\ query_failed' = "none"
    /\ \E data \in DownloadResults :
          IF data = <<>>
          THEN /\ ticker' = ticker + 1
               /\ pc' = NextTickerPc(ticker + 1)
               /\ UNCHANGED close
          ELSE /\ close' = data
               /\ pc' = "find"
               /\ UNCHANGED ticker
    /\ UNCHANGED <<order, analysis_vars, risk_pct, buying_power, position_qty,
                   trade_log, wave_vars, indicator_vars, qty>>

\* lines 164-176
FetchAccount ==
    /\ pc = "account"
    /\ \/ /\ query_failed' = "account"       \* client.get_account() raises
          /\ ticker' = ticker + 1
          /\ pc' = NextTickerPc(ticker + 1)
          /\ UNCHANGED <<buying_power, trade_log, position_qty>>
       \/ /\ \E bp \in Balances : buying_power' = bp
          /\ trade_log' = <<>>
          /\ position_qty' = 0
          /\ pc' = "position"
          /\ UNCHANGED <<ticker, query_failed>>
    /\ UNCHANGED <<order, close, analysis_vars, risk_pct, wave_vars,
                   indicator_vars, qty, orders>>

\* lines 179-185, then the for loop of line 188 starts
CheckPosition ==
    /\ pc = "position"
    /\ \/ /\ \E q \in BrokerPositions : position_qty' = q
          /\ UNCHANGED query_failed
       \/ /\ position_qty' = 0               \* except Exception
          /\ query_failed' = "position"
    /\ wave_i' = 0
    /\ pc' = "loop"
    /\ UNCHANGED <<order, ticker, close, analysis_vars, risk_pct, buying_power,
                   trade_log, buy_idx, sell_idx, stop_loss_idx, buy_price,
                   sell_price, stop_loss_price, indicator_vars, qty, orders>>

\* lines 188-195: the next impulse wave, or the end of the loop (lines 258-260)
NextWave ==
    /\ pc = "loop"
    /\ IF wave_i + 1 > Len(impulse_waves)
       THEN /\ ticker' = ticker + 1
            /\ pc' = NextTickerPc(ticker + 1)
            /\ UNCHANGED wave_vars
       ELSE LET wave == impulse_waves[wave_i + 1]
            IN  /\ wave_i' = wave_i + 1
                /\ buy_idx' = At(wave, 2)
                /\ sell_idx' = At(wave, 4)
                /\ stop_loss_idx' = At(wave, 1)
                /\ buy_price' = At(close, At(wave, 2))
                /\ sell_price' = At(close, At(wave, 4))
                /\ stop_loss_price' = At(close, At(wave, 1))
                /\ pc' = "filter"
                /\ UNCHANGED ticker
    /\ UNCHANGED <<order, close, analysis_vars, risk_pct, buying_power,
                   position_qty, trade_log, indicator_vars, qty, orders,
                   query_failed>>

\* lines 198-203
Filters ==
    /\ pc = "filter"
    /\ \E r \in RSIValues, h \in MACDValues :
          /\ rsi_entry' = r
          /\ macd_entry' = h
          /\ IF rsi_rejects(r)
             THEN /\ trade_log' = Append(trade_log, LogEntry("SKIP_RSI", wave_i, 0, buy_price))
                  /\ pc' = "loop"
             ELSE IF macd_rejects(h)
             THEN /\ trade_log' = Append(trade_log, LogEntry("SKIP_MACD", wave_i, 0, buy_price))
                  /\ pc' = "loop"
             ELSE /\ pc' = "enter"
                  /\ UNCHANGED trade_log
    /\ UNCHANGED <<order, ticker, close, analysis_vars, risk_pct, buying_power,
                   position_qty, wave_vars, qty, orders, query_failed>>

enters_always(q) == TRUE

\* line 206: only enter if no position already
enters(q) == q = 0

\* lines 206-211
SizePosition ==
    /\ pc = "enter"
    /\ IF enters(position_qty)
       THEN LET q == int_trunc(compute_position_size(buying_power, risk_pct,
                                                     buy_price, stop_loss_price))
            IN  /\ qty' = q
                /\ IF q <= 0
                   THEN /\ trade_log' = Append(trade_log, LogEntry("SIZE_ZERO", wave_i, 0, 0))
                        /\ pc' = "loop"
                   ELSE /\ pc' = "buy"
                        /\ UNCHANGED trade_log
       ELSE /\ pc' = "sell"
            /\ UNCHANGED <<qty, trade_log>>
    /\ UNCHANGED <<order, ticker, close, analysis_vars, risk_pct, buying_power,
                   position_qty, wave_vars, indicator_vars, orders, query_failed>>

position_after_buy_optimistic(pos, q, ok) == pos + q

\* lines 220-225: position_qty += qty only after submit_order returned
position_after_buy(pos, q, ok) == IF ok THEN pos + q ELSE pos

\* lines 213-225
SubmitBuy ==
    /\ pc = "buy"
    /\ \E ok \in BOOLEAN :
          /\ orders' = Append(orders, Order("BUY", qty, ok))
          /\ position_qty' = position_after_buy(position_qty, qty, ok)
          /\ IF ok
             THEN /\ trade_log' = Append(trade_log, LogEntry("BUY_SUBMITTED", wave_i, qty, buy_price))
                  /\ pc' = "sell"
             ELSE /\ trade_log' = Append(trade_log, LogEntry("BUY_FAILED", wave_i, 0, 0))
                  /\ pc' = "loop"
    /\ UNCHANGED <<order, ticker, close, analysis_vars, risk_pct, buying_power,
                   wave_vars, indicator_vars, qty, query_failed>>

\* close.iloc[buy_idx:sell_idx+1]
trade_period(prices, from, to) == SubSeq(prices, from + 1, to + 1)

stop_loss_triggered_strict(period, stop) == SeqMin(period) < stop

\* line 229: trade_period.min() <= stop_loss_price
stop_loss_triggered(period, stop) == SeqMin(period) <= stop

position_after_sell_kept(pos, ok) == pos

\* lines 238-242
position_after_stop_loss_sell(pos, ok) == IF ok THEN 0 ELSE pos

\* lines 252-256
position_after_target_sell(pos, ok) == IF ok THEN 0 ELSE pos

\* lines 228-256
SubmitSell ==
    /\ pc = "sell"
    /\ \E ok \in BOOLEAN :
          /\ orders' = Append(orders, Order("SELL", position_qty, ok))
          /\ IF stop_loss_triggered(trade_period(close, buy_idx, sell_idx), stop_loss_price)
             THEN /\ position_qty' = position_after_stop_loss_sell(position_qty, ok)
                  /\ trade_log' = Append(trade_log,
                        IF ok THEN LogEntry("STOP_LOSS_SELL_SUBMITTED", wave_i, position_qty, stop_loss_price)
                        ELSE LogEntry("STOP_LOSS_SELL_FAILED", wave_i, 0, 0))
             ELSE /\ position_qty' = position_after_target_sell(position_qty, ok)
                  /\ trade_log' = Append(trade_log,
                        IF ok THEN LogEntry("SELL_SUBMITTED", wave_i, position_qty, sell_price)
                        ELSE LogEntry("SELL_FAILED", wave_i, 0, 0))
    /\ pc' = "loop"
    /\ UNCHANGED <<order, ticker, close, analysis_vars, risk_pct, buying_power,
                   wave_vars, indicator_vars, qty, query_failed>>

----------------------------------------------------------------------------
(* The script: every ticker of ticker_list in turn *)

Init ==
    /\ Blank
    /\ wave_points = <<>>
    /\ order = DefaultOrder
    /\ close = <<>>
    /\ risk_pct \in RiskPermille
    /\ pc = "download"

Trade == FetchAccount \/ CheckPosition \/ NextWave \/ Filters
         \/ SizePosition \/ SubmitBuy \/ SubmitSell

Next == Download \/ FindWavePoints \/ ValidateImpulse \/ DetectCorrective \/ Trade

Spec == Init /\ [][Next]_vars

----------------------------------------------------------------------------
(* The validators and the trading loop on every 5-point tuple *)

InitImpulse ==
    /\ Blank
    /\ order = DefaultOrder
    /\ close \in [1..5 -> 0..MaxTuplePrice]
    /\ wave_points = <<0, 1, 2, 3, 4>>
    /\ risk_pct \in RiskPermille
    /\ pc = "impulse"

NextImpulse == ValidateImpulse \/ DetectCorrective \/ Trade

SpecImpulse == InitImpulse /\ [][NextImpulse]_vars

----------------------------------------------------------------------------
(* The sizer and the entry on every balance, risk fraction, entry and stop *)

InitSizer ==
    /\ ticker = 1
    /\ order = DefaultOrder
    /\ close = <<>>
    /\ max_idx = <<>> /\ min_idx = <<>> /\ wave_points = <<>>
    /\ impulse_waves = <<>> /\ corrective_waves = <<>>
    /\ risk_pct \in RiskPermille
    /\ buying_power \in Balances
    /\ position_qty \in BrokerPositions
    /\ trade_log = <<>>
    /\ wave_i = 1 /\ buy_idx = 0 /\ sell_idx = 0 /\ stop_loss_idx = 0
    /\ buy_price \in 0..MaxPrice
    /\ sell_price = 0
    /\ stop_loss_price \in 0..MaxPrice
    /\ rsi_entry = NoIndicator /\ macd_entry = NoIndicator
    /\ qty = 0 /\ orders = <<>> /\ query_failed = "none"
    /\ pc = "enter"

NextSizer == SizePosition \/ SubmitBuy

SpecSizer == InitSizer /\ [][NextSizer]_vars


----------------------------------------------------------------------------
(* What the claims speak about *)

\* the loop over impulse_waves is running for the current ticker
InLoop == pc \in {"loop", "filter", "enter", "buy", "sell"}

\* the gates have been evaluated for wave k of the current ticker
Evaluated(k) == k < wave_i \/ (k = wave_i /\ pc # "filter")

\* a gate rejected wave k
Rejected(k) ==
    \E i \in DOMAIN trade_log :
        trade_log[i].wave = k /\ trade_log[i].kind \in {"SKIP_RSI", "SKIP_MACD"}

\* the buy signal was active at the evaluation of wave k
SignalActive(k) == Evaluated(k) /\ ~Rejected(k)

OrdersOf(side, k) ==
    {i \in DOMAIN orders : orders[i].side = side /\ orders[i].wave = k}

BuyEmitted(k) == \E i \in OrdersOf("BUY", k) : orders[i].ok

LogKinds(k) == {trade_log[i].kind : i \in {j \in DOMAIN trade_log : trade_log[j].wave = k}}

----------------------------------------------------------------------------
----------------------------------------------------------------------------
\* C2: every Buy handed to the broker is for a wave whose RSI at the entry
\* index is not above 70 and whose MACD histogram there is not below 0, and is
\* handed over at a tracked position quantity of 0; a wave rejected by a gate
\* gets no Buy and no Sell, and the step that rejects it leaves the position
\* quantity and the submitted orders as they were.
C2_StatePart ==
    InLoop =>
        /\ \A i \in DOMAIN orders :
              orders[i].side = "BUY" =>
                  /\ (orders[i].rsi.nan \/ orders[i].rsi.v <= 70)
                  /\ (orders[i].macd.nan \/ orders[i].macd.v >= 0)
                  /\ orders[i].held = 0
        /\ \A k \in 1..Len(impulse_waves) :
              Rejected(k) => OrdersOf("BUY", k) \cup OrdersOf("SELL", k) = {}

C2_RejectStep ==
    (pc = "filter" /\ pc' = "loop") =>
        /\ position_qty' = position_qty
        /\ orders' = orders
        /\ Last(trade_log').kind \in {"SKIP_RSI", "SKIP_MACD"}

C2_BuyGuard == [](C2_StatePart) /\ [][C2_RejectStep]_vars

\* a ticker with one wave rejected by a gate and a Buy submitted for another
C2_Witness ==
    /\ InLoop
    /\ \E k \in 1..Len(impulse_waves) : Rejected(k)
    /\ \E i \in DOMAIN orders : orders[i].side = "BUY"

----------------------------------------------------------------------------
\* C3: when the account query or the position query of a ticker fails, the
\* evaluation of that ticker is skipped: the broker accepts no Buy and no
\* Sell for it in that evaluation.
C3_QueryFailureSkips ==
    query_failed # "none" => \A i \in DOMAIN orders : ~orders[i].ok

----------------------------------------------------------------------------
\* C4: a step in which submit_order fails, for a Buy or for a Sell, leaves
\* the tracked position quantity as it was and appends the failure to the
\* trade log.
C4_FailedStep ==
    (Len(orders') = Len(orders) + 1 /\ ~Last(orders').ok) =>
        /\ position_qty' = position_qty
        /\ Len(trade_log') = Len(trade_log) + 1
        /\ SubSeq(trade_log', 1, Len(trade_log)) = trade_log
        /\ Last(trade_log').wave = wave_i
        /\ Last(trade_log').kind \in
              (IF Last(orders').side = "BUY" THEN {"BUY_FAILED"}
               ELSE {"STOP_LOSS_SELL_FAILED", "SELL_FAILED"})

C4_RejectedOrderKeepsPosition == [][C4_FailedStep]_vars

\* a failed Buy and a failed Sell with a position held, in one ticker
C4_Witness ==
    /\ InLoop
    /\ \E i \in DOMAIN orders : orders[i].side = "BUY" /\ ~orders[i].ok
    /\ \E i \in DOMAIN orders : orders[i].side = "SELL" /\ ~orders[i].ok
    /\ position_qty > 0

----------------------------------------------------------------------------
\* C5: an accepted wave with an open position (the script stands at the exit
\* rule, pc = "sell") gets exactly one Sell attempt, for the whole tracked
\* quantity; it is the stop-loss Sell, logged at the price of the wave's 2nd
\* point, if some price from the entry index to the target index, inclusive,
\* is at or below that price, and otherwise the target Sell, logged at the
\* price of the wave's 5th point; no wave gets both.

\* the window of wave w has reached the stop-loss price
Breached(w) ==
    \E j \in At(w, 2)..At(w, 4) : At(close, j) <= At(close, At(w, 1))

C5_ExitState ==
    InLoop =>
        /\ pc = "sell" =>
              /\ position_qty # 0
              /\ SignalActive(wave_i)
              /\ OrdersOf("SELL", wave_i) = {}
        /\ \A k \in 1..Len(impulse_waves) :
              /\ Cardinality(OrdersOf("SELL", k)) <= 1
              /\ ~(/\ LogKinds(k) \cap {"STOP_LOSS_SELL_SUBMITTED", "STOP_LOSS_SELL_FAILED"} # {}
                   /\ LogKinds(k) \cap {"SELL_SUBMITTED", "SELL_FAILED"} # {})

C5_ExitStep ==
    pc = "sell" =>
        LET w == impulse_waves[wave_i]
            o == Last(orders')
            e == Last(trade_log')
        IN  /\ Len(orders') = Len(orders) + 1
            /\ SubSeq(orders', 1, Len(orders)) = orders
            /\ o.side = "SELL" /\ o.qty = position_qty /\ o.wave = wave_i
            /\ Len(trade_log') = Len(trade_log) + 1
            /\ e.wave = wave_i
            /\ IF Breached(w)
               THEN IF o.ok
                    THEN e.kind = "STOP_LOSS_SELL_SUBMITTED"
                         /\ e.price = At(close, At(w, 1)) /\ e.qty = position_qty
                    ELSE e.kind = "STOP_LOSS_SELL_FAILED"
               ELSE IF o.ok
                    THEN e.kind = "SELL_SUBMITTED"
                         /\ e.price = At(close, At(w, 4)) /\ e.qty = position_qty
                    ELSE e.kind = "SELL_FAILED"
            /\ pc' = "loop"

\* an accepted wave whose position is open always reaches the exit rule
C5_ReachStep ==
    /\ (pc = "enter" /\ position_qty # 0) => pc' = "sell"
    /\ (pc = "buy" /\ position_qty' # position_qty) => pc' = "sell"

C5_ExitRule == [](C5_ExitState) /\ [][C5_ExitStep /\ C5_ReachStep]_vars

\* a stop-loss Sell was just attempted: the window minimum touches the stop
C5_Witness ==
    /\ pc = "loop"
    /\ wave_i >= 1 /\ wave_i <= Len(impulse_waves)
    /\ Breached(impulse_waves[wave_i])
    /\ OrdersOf("SELL", wave_i) # {}
    /\ "STOP_LOSS_SELL_SUBMITTED" \in LogKinds(wave_i)

----------------------------------------------------------------------------
\* right after the exit rule has run for the current wave
AfterExit ==
    /\ pc = "loop"
    /\ orders # <<>>
    /\ Last(orders).side = "SELL"
    /\ Last(orders).wave = wave_i

\* C6 (as stated): after the exit rule has run for a wave, on either path,
\* the tracked position quantity is 0.
C6_ExitClears == AfterExit => position_qty = 0

\* C6 (amended): after the exit rule has run for a wave, on either path, the
\* tracked position quantity is 0 if the Sell was accepted, and is what it
\* was before the Sell if submit_order failed.
C6_AcceptedExitClears ==
    AfterExit =>
        IF Last(orders).ok THEN position_qty = 0
        ELSE position_qty = Last(orders).held

\* a target Sell was accepted for a held position
C6_Witness ==
    /\ AfterExit
    /\ Last(orders).ok
    /\ Last(orders).held > 0
    /\ Last(trade_log).kind = "SELL_SUBMITTED"

----------------------------------------------------------------------------
\* C7: no index within `order` of either end of the series is returned as a
\* peak or a trough, and a series shorter than 2*order+1 has no turning point.
C7_NoBoundaryPoint ==
    pc # "find" =>
        LET n == Len(close)
            found == {max_idx[i] : i \in DOMAIN max_idx}
                     \cup {min_idx[i] : i \in DOMAIN min_idx}
        IN  /\ \A i \in found : i >= order /\ i <= n - 1 - order
            /\ n < 2 * order + 1 => wave_points = <<>>

----------------------------------------------------------------------------
\* C8: every segment the two validators return for the turning points of
\* find_wave_points has strictly increasing indices.
StrictlyIncreasing(seg) == \A i \in 1..(Len(seg) - 1) : seg[i] < seg[i + 1]

C8_SegmentsIncrease ==
    /\ \A k \in DOMAIN impulse_waves : StrictlyIncreasing(impulse_waves[k])
    /\ \A k \in DOMAIN corrective_waves : StrictlyIncreasing(corrective_waves[k])

\* a turning-point list that holds an index twice, and an accepted segment
C8_Witness ==
    /\ pc = "account"
    /\ \E i \in 1..(Len(wave_points) - 1) : wave_points[i] = wave_points[i + 1]
    /\ corrective_waves # <<>>

----------------------------------------------------------------------------
\* C9: for a balance >= 0 the quantity int(compute_position_size(...)) is
\* balance*r/|entry-stop| truncated, does not decrease when the risk fraction
\* r grows (over every per-mille step of 0 < r <= 1), and is 0 when
\* entry = stop; a quantity of 0 is never submitted as a Buy.
SizedQty(r) ==
    int_trunc(compute_position_size(buying_power, r, buy_price, stop_loss_price))

C9_Sizing ==
    /\ buying_power >= 0 =>
          /\ \A r \in 1..999 : SizedQty(r) <= SizedQty(r + 1)
          /\ buy_price # stop_loss_price =>
                \A r \in 1..1000 :
                    SizedQty(r) = (buying_power * r) \div (1000 * Abs(buy_price - stop_loss_price))
    /\ buy_price = stop_loss_price => \A r \in 1..1000 : SizedQty(r) = 0
    /\ (pc # "enter" /\ buy_price = stop_loss_price) => qty = 0
    /\ pc = "buy" => qty > 0
    /\ \A i \in DOMAIN orders : orders[i].side = "BUY" => orders[i].qty > 0

\* entry = stop with money on the account: sized to 0 and skipped
C9_Witness ==
    /\ buy_price = stop_loss_price
    /\ buying_power > 0
    /\ pc = "loop"
    /\ trade_log # <<>> /\ Last(trade_log).kind = "SIZE_ZERO"
    /\ orders = <<>>

----------------------------------------------------------------------------
\* C10: the prices of every accepted impulse segment are strictly increasing,
\* so for the wave being traded stop-loss price < entry price < target price
\* and the sizer's stop distance is not 0.
C10_AcceptedIncreasing ==
    /\ \A k \in DOMAIN impulse_waves :
          \A i \in 1..4 :
              At(close, impulse_waves[k][i]) < At(close, impulse_waves[k][i + 1])
    /\ pc \in {"filter", "enter", "buy", "sell"} =>
          /\ stop_loss_price < buy_price
          /\ buy_price < sell_price
          /\ Abs(buy_price - stop_loss_price) # 0

\* an accepted 5-tuple was sized and is about to be bought
C10_Witness ==
    /\ pc = "buy"
    /\ impulse_waves # <<>>
    /\ qty > 0

====
